---- MODULE Spec2Model ----
(***************************************************************************)
(* kv-store: a bounded LRU cache with per-entry TTL (package cache) over a *)
(* segmented write-ahead log (package wal).  The model holds the cache's   *)
(* entry map and recency list, the WAL's fields, the segment files of the  *)
(* WAL directory, and a clock.  One action per exported operation.         *)
(***************************************************************************)
EXTENDS Integers, Sequences, FiniteSets, TLC

\* ------------------------------------------------------------------ bounds
\* The clock's last instant, the sequence numbers a WAL may issue before the
\* model stops it (per specification), and the highest segment id.
MaxTime == 2
MaxSeq == 3
MaxSeqTTL == 2
MaxSeqLive == 2
MaxSeqFault == 3
MaxSeqReplay == 5
MaxSeqRotate == 7
MaxSeqCorrupt == 4
MaxSegId == 2

\* What the callers pass: keys, values, TTLs, and the parameters of NewLRUCache.
Keys == {"a", "b"}
KeysReplay == {"a", "b", "c"}
Values == {1, 2}
TTLs == {0, 1}
Capacities == {1, 2}
SegmentLimits == {1, 2}
SegmentLimitsRotate == {0, 1, 2, 3}

\* wal.EntryTypeSET / wal.EntryTypeDELETE
EntryTypeSET == 1
EntryTypeDELETE == 2

\* A partial record at the end of a segment: fewer than 4 bytes of the length
\* prefix, the prefix and no body byte, the prefix and part of the body.
Tails == {"prefix", "nobody", "body"}
\* Outcomes of the I/O an Append performs: no failure, Stat failing in the
\* rotation check, the buffered writer's Flush failing with nothing written
\* ("flush") or with a fragment of the record written (one of Tails), and
\* fsync failing.
Faults == {"none", "stat", "flush", "sync"} \cup Tails
\* The failures that leave different files behind for a restart to find.
FaultsRestart == {"none", "flush", "sync", "body"}

VARIABLES
    entries,            \* LRUCache.entries: key -> CacheItem (value, TTL, createdAt)
    evictList,          \* LRUCache.evictList, front first; a node is [key, item]:
                        \* item is TRUE on the node entries[key].element points to
    capacity,           \* LRUCache.capacity
    walOn,              \* LRUCache.wal != nil
    forceFSync,         \* WAL.forceFSync
    maxFileSize,        \* WAL.maxFileSize, in records
    maxSegments,        \* WAL.maxSegments
    otherFiles,         \* files of the directory whose name has the segment prefix
                        \* and a suffix that is no integer: how many
    lastSequenceNumber, \* WAL.lastSequenceNumber
    currentSegment,     \* id of the file WAL.currentSegment is a handle of
    fileOpen,           \* the handle WAL.currentSegment is open
    writerErr,          \* the sticky error of WAL.bufferedWriter
    segments,           \* the directory: segment id -> [recs, tail]
    durable,            \* records of the segment currentSegment that are fsynced
    now,                \* time.Now()
    proc,               \* "open": a cache is in use; "closed": Close was called;
                        \* "down": the process is gone (crash, or Open failed)
    ret,                \* the last call and what it returned
    lru,                \* history: the resident keys of a reference LRU, most recent first
    acked,              \* history: per key the last mutation whose call returned nil
    goroutines,         \* per goroutine the call it is in and its position in it
    mu,                 \* LRUCache.mu: the goroutine that holds it, or Unlocked
    lock,               \* WAL.lock: the goroutine that holds it, or Unlocked
    syncTimer,          \* WAL.syncTimer: "armed" while a receive from its channel can
                        \* succeed (it runs, or it has fired), else "stopped"
    applied             \* history: the Sets and Deletes in the order in which the
                        \* goroutines changed the map and the list for them

vars == <<entries, evictList, capacity, walOn, forceFSync, maxFileSize, maxSegments, otherFiles,
          lastSequenceNumber, currentSegment, fileOpen, writerErr, segments, durable,
          now, proc, ret, lru, acked, goroutines, mu, lock, syncTimer, applied>>

\* The goroutines and the two mutexes.  In the actions that model one call as
\* one step the caller is the only goroutine, and both mutexes are free before
\* and after the call.
thrVars == <<goroutines, mu, lock, syncTimer, applied>>
cfgVars == <<capacity, walOn, forceFSync, maxFileSize, maxSegments, otherFiles>>
cacheVars == <<entries, evictList>>
walVars == <<lastSequenceNumber, currentSegment, fileOpen, writerErr, segments, durable>>

\* ----------------------------------------------------------------- helpers
Max(S) == CHOOSE x \in S : \A y \in S : y <= x
Min(S) == CHOOSE x \in S : \A y \in S : x <= y
Range(s) == {s[i] : i \in DOMAIN s}
RemoveAt(s, i) == SubSeq(s, 1, i - 1) \o SubSeq(s, i + 1, Len(s))
Restrict(f, S) == [x \in S |-> f[x]]
Without(s, k) == SelectSeq(s, LAMBDA x : x # k)

\* The last call: its name, its key, whether it returned an error and, for Get,
\* whether it returned present and the value it returned (0 is nil).
Ret(op, key, err, present) ==
    [op |-> op, key |-> key, err |-> err, present |-> present, value |-> 0]

\* ------------------------------------------------------- container/list
ListKeys(l) == {l[i].key : i \in DOMAIN l}
\* The position of the node entries[k].element points to.
ElementOf(l, k) == CHOOSE i \in DOMAIN l : l[i].key = k /\ l[i].item
\* delete(entries, k), or entries[k] given a new item: no node of k is the
\* element of an item of the map any more.
Orphan(l, k) == [i \in DOMAIN l |-> IF l[i].key = k THEN [l[i] EXCEPT !.item = FALSE] ELSE l[i]]
PushFront(l, k) == <<[key |-> k, item |-> TRUE]>> \o l
MoveToFront(l, i) == <<l[i]>> \o RemoveAt(l, i)

\* ------------------------------------------------------------ value codec
serializeValue(v) == <<"gob", v>>
deserializeValue(b) == b[2]

\* ------------------------------------------------------------- cache core
\* A cache state c is [entries, evictList]; the operators below are the bodies
\* of the methods once the WAL has accepted the record.
Cache(e, l) == [entries |-> e, evictList |-> l]
NoEntries == [k \in {} |-> 0]
EmptyCache == Cache(NoEntries, <<>>)
Item(v, ttl, t) == [value |-> v, TTL |-> ttl, createdAt |-> t]
Size(c) == Cardinality(DOMAIN c.entries)

\* A slip in evictLRU: Front() for Back().
evictMRU(c) ==
    IF Len(c.evictList) = 0 THEN c
    ELSE LET key == c.evictList[1].key
         IN Cache(Restrict(c.entries, DOMAIN c.entries \ {key}),
                  Orphan(RemoveAt(c.evictList, 1), key))

evictLRU(c) ==
    IF Len(c.evictList) = 0 THEN c
    ELSE LET n == Len(c.evictList)
             key == c.evictList[n].key
         IN Cache(Restrict(c.entries, DOMAIN c.entries \ {key}),
                  Orphan(RemoveAt(c.evictList, n), key))

\* A slip in Set: the branch for a key that is present moves the node to the
\* front and keeps the stored item.
SetItemKeepsValue(c, key, value, ttl, t) ==
    IF key \in DOMAIN c.entries
    THEN Cache(c.entries, MoveToFront(c.evictList, ElementOf(c.evictList, key)))
    ELSE LET c1 == IF Size(c) >= capacity THEN evictLRU(c) ELSE c
         IN Cache([k \in DOMAIN c1.entries \cup {key} |->
                      IF k = key THEN Item(value, ttl, t) ELSE c1.entries[k]],
                  PushFront(c1.evictList, key))

\* Set, lines 78-106: overwrite in place and move to front, or evict when full
\* and push a new node.
SetItem(c, key, value, ttl, t) ==
    IF key \in DOMAIN c.entries
    THEN Cache([c.entries EXCEPT ![key] = Item(value, ttl, t)],
               MoveToFront(c.evictList, ElementOf(c.evictList, key)))
    ELSE LET c1 == IF Size(c) >= capacity THEN evictLRU(c) ELSE c
         IN Cache([k \in DOMAIN c1.entries \cup {key} |->
                      IF k = key THEN Item(value, ttl, t) ELSE c1.entries[k]],
                  PushFront(c1.evictList, key))

\* A slip in Get's expiry test: expired at the deadline itself.
ExpiredAtDeadline(item, t) == item.TTL > 0 /\ t >= item.createdAt + item.TTL

\* Get, lines 126-135: time.Now().After(createdAt.Add(TTL)) for a TTL > 0.
Expired(item, t) == item.TTL > 0 /\ t > item.createdAt + item.TTL

\* Remove(entry.element); delete(entries, key): Get on an expired entry, Delete.
RemoveItem(c, key) ==
    Cache(Restrict(c.entries, DOMAIN c.entries \ {key}),
          RemoveAt(c.evictList, ElementOf(c.evictList, key)))

\* A slip in Get: the hit returns the value and leaves the list alone.
TouchNoMove(c, key) == c

\* Get, lines 137-139.
Touch(c, key) == Cache(c.entries, MoveToFront(c.evictList, ElementOf(c.evictList, key)))

GetItem(c, key, t) ==
    IF key \notin DOMAIN c.entries THEN c
    ELSE IF Expired(c.entries[key], t) THEN RemoveItem(c, key)
    ELSE Touch(c, key)

GetPresent(c, key, t) == key \in DOMAIN c.entries /\ ~Expired(c.entries[key], t)
\* The first value Get returns: entry.value on a hit, nil otherwise.
GetValue(c, key, t) == IF GetPresent(c, key, t) THEN c.entries[key].value ELSE 0

\* ---------------------------------------------------------- reference LRU
\* The textbook LRU over keys only: a use moves the key to the front, a new key
\* in a full cache drops the last one.
RefUse(r, k, cap) ==
    IF k \in Range(r) THEN <<k>> \o Without(r, k)
    ELSE IF Len(r) >= cap /\ Len(r) > 0 THEN <<k>> \o SubSeq(r, 1, Len(r) - 1)
    ELSE <<k>> \o r
RefDrop(r, k) == Without(r, k)

\* ------------------------------------------------------------ record codec
Entry(type, seq, key, value, exp) ==
    [Type |-> type, SequenceNumber |-> seq, Key |-> key, Value |-> value,
     ExpiresAtUnixNano |-> exp, CRC |-> 0]
\* crc32 over the encoding of the entry with CRC = 0: a checksum of the fields.
calculateCRC(e) ==
    1 + ((e.Type + 3 * e.SequenceNumber + 5 * e.ExpiresAtUnixNano
            + (IF e.Key = "a" THEN 7 ELSE IF e.Key = "b" THEN 11 ELSE 13)
            + (IF e.Value = <<>> THEN 0 ELSE 17 * e.Value[2])) % 251)
\* A slip in unMarshalAndVerifyEntry: the CRC is not compared.
verifyCRCSkipped(e) == TRUE

verifyCRC(e) == e.CRC = calculateCRC(e)
Marshal(e) == [e EXCEPT !.CRC = calculateCRC(e)]
\* Bytes that gob cannot decode, and MustUnmarshal on them: it panics.
Garbage == Entry(0, 0, "", <<>>, 0)
MustUnmarshalPanics(data) == data = Garbage
\* Bytes damaged at rest so that they still decode: a bit of the key flipped,
\* the stored CRC as it was.
Damaged(data) == [data EXCEPT !.Key = IF @ = "a" THEN "b" ELSE "a"]

\* ---------------------------------------------------------- segment store
File(recs, tail) == [recs |-> recs, tail |-> tail]
EmptyFile == File(<<>>, "none")
\* A slip in the rotation check: the record about to be written is counted.
FileSizeWithRecord(f) == Len(f.recs) + 1

\* stat.Size(), in records.
FileSize(f) == Len(f.recs)

\* A slip in GetLastSegmentID: the comparison reversed, the lowest id is kept.
GetFirstSegmentID(segs) == IF DOMAIN segs = {} THEN 0 ELSE Min(DOMAIN segs)

\* GetLastSegmentID: the highest id among the names that parse, 0 if there is none.
GetLastSegmentID(segs) == IF DOMAIN segs = {} THEN 0 ELSE Max(DOMAIN segs)

RECURSIVE SortedIds(_)
SortedIds(S) == IF S = {} THEN <<>> ELSE <<Min(S)>> \o SortedIds(S \ {Min(S)})
\* A slip in sortSegmentFiles: the comparison reversed.
sortNewestFirst(segs) ==
    LET sorted == SortedIds(DOMAIN segs)
    IN [i \in 1..Len(sorted) |-> sorted[Len(sorted) + 1 - i]]

sortSegmentFiles(segs) == SortedIds(DOMAIN segs)

\* ------------------------------------------------------------------- WAL
\* A WAL state w is the record of the WAL's fields and the directory.
WalState == [lastSequenceNumber |-> lastSequenceNumber, currentSegment |-> currentSegment,
             fileOpen |-> fileOpen, writerErr |-> writerErr, segments |-> segments,
             durable |-> durable]
Out(err, w) == [err |-> err, w |-> w]

\* A slip in cleanupOldSegments: no room is made for the segment about to be
\* created.
cleanupNoRoom(segs) ==
    IF Cardinality(DOMAIN segs) <= maxSegments THEN segs
    ELSE LET sorted == sortSegmentFiles(segs)
             toRemove == Len(sorted) - maxSegments
             gone == {sorted[i] : i \in {j \in 1..Len(sorted) : j <= toRemove}}
         IN Restrict(segs, DOMAIN segs \ gone)

\* A slip in cleanupOldSegments: the segment about to be created is counted
\* twice.
cleanupOneMore(segs) ==
    IF Cardinality(DOMAIN segs) + otherFiles < maxSegments THEN segs
    ELSE LET sorted == sortSegmentFiles(segs)
             toRemove == Len(sorted) - maxSegments + 2
             gone == {sorted[i] : i \in {j \in 1..Len(sorted) : j <= toRemove}}
         IN Restrict(segs, DOMAIN segs \ gone)

\* cleanupOldSegments: len(files) counts every name Glob matched, the sorted
\* list holds those whose suffix is an integer, and only names of the sorted
\* list are removed.
cleanupOldSegments(segs) ==
    IF Cardinality(DOMAIN segs) + otherFiles < maxSegments THEN segs
    ELSE LET sorted == sortSegmentFiles(segs)
             toRemove == Len(sorted) - maxSegments + 1
             gone == {sorted[i] : i \in {j \in 1..Len(sorted) : j <= toRemove}}
         IN Restrict(segs, DOMAIN segs \ gone)

checkAndRotateSegment(w, fault) ==
    IF ~w.fileOpen \/ fault = "stat" THEN Out(TRUE, w)
    ELSE IF FileSize(w.segments[w.currentSegment]) < maxFileSize THEN Out(FALSE, w)
    ELSE IF w.writerErr THEN Out(TRUE, w)
    ELSE LET nextSegmentID == GetLastSegmentID(w.segments) + 1
             kept == cleanupOldSegments(w.segments)
         IN Out(FALSE, [w EXCEPT !.segments = [id \in DOMAIN kept \cup {nextSegmentID} |->
                                                  IF id \in DOMAIN kept THEN kept[id]
                                                  ELSE EmptyFile],
                                 !.currentSegment = nextSegmentID,
                                 !.writerErr = FALSE,
                                 !.durable = 0])

\* The rotation check of the next Append will rotate.
WillRotate(w) ==
    w.fileOpen /\ ~w.writerErr /\ FileSize(w.segments[w.currentSegment]) >= maxFileSize
\* The model stops at the last sequence number, and where a rotation would
\* create a segment beyond MaxSegId once the segment ids have outrun the
\* sequence numbers (a restart on an empty highest segment starts them anew).
InBounds(w, maxSeq) ==
    /\ w.lastSequenceNumber < maxSeq
    /\ WillRotate(w) => \/ GetLastSegmentID(w.segments) < MaxSegId
                        \/ GetLastSegmentID(w.segments) < w.lastSequenceNumber

\* WAL.Append (Append is the Sequences operator).
WalAppend(w, fault, type, key, value, exp) ==
    LET w1 == [w EXCEPT !.lastSequenceNumber = @ + 1]
        data == Marshal(Entry(type, w1.lastSequenceNumber, key, value, exp))
        rot == checkAndRotateSegment(w1, fault)
        w2 == rot.w
        cur == w2.currentSegment
        w3 == [w2 EXCEPT !.segments[cur].recs = Append(@, data)]
    IN IF rot.err THEN Out(TRUE, w2)
       ELSE IF w2.writerErr THEN Out(TRUE, w2)
       ELSE IF fault = "flush" THEN Out(TRUE, [w2 EXCEPT !.writerErr = TRUE])
       ELSE IF fault \in Tails
            THEN Out(TRUE, [w2 EXCEPT !.writerErr = TRUE, !.segments[cur].tail = fault])
       ELSE IF ~forceFSync THEN Out(FALSE, w3)
       ELSE IF fault = "sync" THEN Out(TRUE, w3)
       ELSE Out(FALSE, [w3 EXCEPT !.durable = Len(w3.segments[cur].recs)])

\* A slip in WAL.Close: the handle is flushed and synced and stays open.
WalCloseKeepsOpen(w) ==
    IF w.writerErr \/ ~w.fileOpen THEN Out(TRUE, w)
    ELSE Out(FALSE, [w EXCEPT !.durable = Len(w.segments[w.currentSegment].recs)])

\* WAL.Close: Flush, then Sync and Close of the handle; the first error returns.
WalClose(w) ==
    IF w.writerErr \/ ~w.fileOpen THEN Out(TRUE, w)
    ELSE Out(FALSE, [w EXCEPT !.fileOpen = FALSE,
                              !.durable = Len(w.segments[w.currentSegment].recs)])

\* One fire of the timer in syncLoop: Flush and Sync under the lock, errors logged.
WalSync(w) ==
    IF w.writerErr \/ ~w.fileOpen THEN w
    ELSE [w EXCEPT !.durable = Len(w.segments[w.currentSegment].recs)]

\* A slip in getLastSequenceNumberFromFile: the first record's number.
getFirstSequenceNumberFromFile(f) ==
    IF f.tail # "none" THEN Out(TRUE, 0)
    ELSE IF Len(f.recs) = 0 THEN Out(FALSE, 0)
    ELSE Out(FALSE, f.recs[1].SequenceNumber)

\* The scan of the highest segment: every partial record makes it fail (a short
\* prefix in the read of the size, a short or missing body in the read of the
\* last entry after the seek past the end of the file).
getLastSequenceNumberFromFile(f) ==
    IF f.tail # "none" THEN Out(TRUE, 0)
    ELSE IF Len(f.recs) = 0 THEN Out(FALSE, 0)
    ELSE Out(FALSE, f.recs[Len(f.recs)].SequenceNumber)

\* synced: the records of the highest segment that are already on stable storage.
NewWal(segs, synced) ==
    LET dir == IF DOMAIN segs = {} THEN [id \in {0} |-> EmptyFile] ELSE segs
        lastSegmentId == GetLastSegmentID(dir)
        last == getLastSequenceNumberFromFile(dir[lastSegmentId])
    IN Out(last.err, [lastSequenceNumber |-> last.w, currentSegment |-> lastSegmentId,
                      fileOpen |-> ~last.err, writerErr |-> FALSE, segments |-> dir,
                      durable |-> synced])

\* readSegment: the records up to the first one that fails its CRC; a short
\* prefix or a short body is an error, a missing body ends the segment.
RECURSIVE ValidPrefix(_)
ValidPrefix(recs) ==
    IF recs = <<>> \/ ~verifyCRC(Head(recs)) THEN <<>>
    ELSE <<Head(recs)>> \o ValidPrefix(Tail(recs))
readSegment(f) ==
    LET valid == ValidPrefix(f.recs)
    IN Out(Len(valid) = Len(f.recs) /\ f.tail \in {"prefix", "body"}, valid)

RECURSIVE ReadFiles(_, _)
ReadFiles(segs, ids) ==
    IF ids = <<>> THEN Out(FALSE, <<>>)
    ELSE LET first == readSegment(segs[Head(ids)])
             rest == ReadFiles(segs, Tail(ids))
         IN Out(first.err \/ rest.err, first.w \o rest.w)
ReadAll(segs) == ReadFiles(segs, sortSegmentFiles(segs))

\* Where the readers panic: readSegment in unMarshalAndVerifyEntry when it
\* reaches bytes that do not decode, getLastSequenceNumberFromFile on the last
\* record of the highest segment.
readSegmentPanics(f) ==
    \E i \in DOMAIN f.recs :
        /\ MustUnmarshalPanics(f.recs[i])
        /\ \A j \in 1..(i - 1) : verifyCRC(f.recs[j])
RECURSIVE ReadFilesPanics(_, _)
ReadFilesPanics(segs, ids) ==
    IF ids = <<>> THEN FALSE
    ELSE \/ readSegmentPanics(segs[Head(ids)])
         \/ /\ ~readSegment(segs[Head(ids)]).err
            /\ ReadFilesPanics(segs, Tail(ids))
ReadAllPanics(segs) == ReadFilesPanics(segs, sortSegmentFiles(segs))
NewWalPanics(segs) ==
    /\ DOMAIN segs # {}
    /\ LET f == segs[GetLastSegmentID(segs)]
       IN f.tail = "none" /\ Len(f.recs) > 0 /\ MustUnmarshalPanics(f.recs[Len(f.recs)])

\* ---------------------------------------------------------------- recovery
\* A slip in the replay of a SET: the TTL is the record's expiry instant, not
\* what is left of it at time t.
ReplaySetFullTTL(c, e, t) ==
    IF e.ExpiresAtUnixNano > 0 /\ t >= e.ExpiresAtUnixNano THEN c
    ELSE LET value == deserializeValue(e.Value)
             ttl == e.ExpiresAtUnixNano
             createdAt == IF e.ExpiresAtUnixNano > 0 THEN t ELSE 0
             c1 == IF Size(c) >= capacity THEN evictLRU(c) ELSE c
         IN Cache([k \in DOMAIN c1.entries \cup {e.Key} |->
                      IF k = e.Key THEN Item(value, ttl, createdAt) ELSE c1.entries[k]],
                  PushFront(Orphan(c1.evictList, e.Key), e.Key))

\* One record of the replay loop of recoverFromWAL at time t.
ReplaySet(c, e, t) ==
    IF e.ExpiresAtUnixNano > 0 /\ t >= e.ExpiresAtUnixNano THEN c
    ELSE LET value == deserializeValue(e.Value)
             ttl == IF e.ExpiresAtUnixNano > 0 THEN e.ExpiresAtUnixNano - t ELSE 0
             createdAt == IF e.ExpiresAtUnixNano > 0 THEN t ELSE 0
             c1 == IF Size(c) >= capacity THEN evictLRU(c) ELSE c
         IN Cache([k \in DOMAIN c1.entries \cup {e.Key} |->
                      IF k = e.Key THEN Item(value, ttl, createdAt) ELSE c1.entries[k]],
                  PushFront(Orphan(c1.evictList, e.Key), e.Key))

\* A slip in the replay loop: DELETE records skipped.
ReplayDeleteSkipped(c, e) == c

ReplayDelete(c, e) == IF e.Key \in DOMAIN c.entries THEN RemoveItem(c, e.Key) ELSE c

ReplayEntry(c, e, t) ==
    IF e.Type = EntryTypeSET THEN ReplaySet(c, e, t)
    ELSE IF e.Type = EntryTypeDELETE THEN ReplayDelete(c, e)
    ELSE c

RECURSIVE Replay(_, _, _)
Replay(c, recs, t) ==
    IF recs = <<>> THEN c ELSE Replay(ReplayEntry(c, Head(recs), t), Tail(recs), t)

recoverFromWAL(segs, t) ==
    LET all == ReadAll(segs) IN Out(all.err, Replay(EmptyCache, all.w, t))

\* The reference LRU fed the same records (the ones not expired at t).
RECURSIVE RefReplay(_, _, _, _)
RefReplay(r, recs, t, cap) ==
    IF recs = <<>> THEN r
    ELSE LET e == Head(recs)
             r1 == IF e.Type = EntryTypeDELETE THEN RefDrop(r, e.Key)
                   ELSE IF e.ExpiresAtUnixNano > 0 /\ t >= e.ExpiresAtUnixNano THEN r
                   ELSE RefUse(r, e.Key, cap)
         IN RefReplay(r1, Tail(recs), t, cap)

\* ----------------------------------------------------------------- actions
NoAck == [kind |-> "none", value |-> 0]
\* The goroutines that call the cache, and the one NewWal starts for syncLoop.
Callers == {"g1", "g2"}
syncLoop == "syncLoop"
Goroutines == Callers \cup {syncLoop}
\* A goroutine outside every call; for syncLoop, waiting in its select.
Idle == [pc |-> "idle", op |-> "", key |-> "", err |-> FALSE]
\* A mutex nobody holds.
Unlocked == ""
AllKeys == Keys \cup KeysReplay
NoWal == [lastSequenceNumber |-> 0, currentSegment |-> 0, fileOpen |-> FALSE,
          writerErr |-> FALSE, segments |-> segments, durable |-> 0]

SetWal(w) ==
    /\ lastSequenceNumber' = w.lastSequenceNumber
    /\ currentSegment' = w.currentSegment
    /\ fileOpen' = w.fileOpen
    /\ writerErr' = w.writerErr
    /\ segments' = w.segments
    /\ durable' = w.durable

SetCache(c) ==
    /\ entries' = c.entries
    /\ evictList' = c.evictList

\* NewLRUCache on a directory with no segment (or with no directory): NewWal
\* creates segment 0, whatever other files the directory holds.
InitDir(caps, wals, syncs, sizes, segs, others) ==
    /\ capacity \in caps
    /\ walOn \in wals
    /\ forceFSync \in (IF walOn THEN syncs ELSE {FALSE})
    /\ maxFileSize \in (IF walOn THEN sizes ELSE {1})
    /\ maxSegments \in (IF walOn THEN segs ELSE {1})
    /\ otherFiles \in (IF walOn THEN others ELSE {0})
    /\ entries = NoEntries
    /\ evictList = <<>>
    /\ lastSequenceNumber = 0
    /\ currentSegment = 0
    /\ fileOpen = walOn
    /\ writerErr = FALSE
    /\ segments = IF walOn THEN [id \in {0} |-> EmptyFile] ELSE [id \in {} |-> EmptyFile]
    /\ durable = 0
    /\ now = 0
    /\ proc = "open"
    /\ ret = Ret("Open", "", FALSE, FALSE)
    /\ lru = <<>>
    /\ acked = [k \in AllKeys |-> NoAck]
    /\ goroutines = [g \in Goroutines |-> Idle]
    /\ mu = Unlocked
    /\ lock = Unlocked
    /\ syncTimer = IF walOn THEN "armed" ELSE "stopped"
    /\ applied = <<>>

\* NewLRUCache on an empty directory.
InitWith(caps, wals, syncs, sizes, segs) == InitDir(caps, wals, syncs, sizes, segs, {0})

\* A slip in Set and Delete: the error of Append is not returned before the
\* map and the list are changed.
CommitAnyway(err, old, new) == new

\* Set, lines 72-76, and Delete, lines 153-157: an error from Append returns
\* before anything in memory is touched.
Commit(err, old, new) == IF err THEN old ELSE new

\* LRUCache.Set, with the time its Append takes: the record's expiry instant is
\* computed from the clock read before the Append (line 68), the entry's
\* createdAt is the clock read after it (lines 81, 94).
SetTakes(key, value, ttl, fault, maxSeq, lag) ==
    /\ proc \in {"open", "closed"}
    /\ now + lag <= MaxTime
    /\ walOn => InBounds(WalState, maxSeq)
    /\ ~walOn => fault = "none"
    /\ LET exp == IF ttl > 0 THEN now + ttl ELSE 0
           a == IF walOn
                THEN WalAppend(WalState, fault, EntryTypeSET, key, serializeValue(value), exp)
                ELSE Out(FALSE, WalState)
           c == Commit(a.err, Cache(entries, evictList),
                       SetItem(Cache(entries, evictList), key, value, ttl, now + lag))
           evicted == DOMAIN entries \ DOMAIN c.entries
       IN /\ SetWal(a.w)
          /\ SetCache(c)
          /\ ret' = Ret("Set", key, a.err, FALSE)
          /\ lru' = IF a.err THEN lru ELSE RefUse(lru, key, capacity)
          /\ acked' = IF a.err THEN acked
                      ELSE [k \in AllKeys |->
                              IF k = key
                              THEN (IF ttl = 0 THEN [kind |-> "set", value |-> value] ELSE NoAck)
                              ELSE IF k \in evicted THEN NoAck ELSE acked[k]]
    /\ now' = now + lag
    /\ UNCHANGED <<cfgVars, thrVars, proc>>

\* LRUCache.Set in an instant.
Set(key, value, ttl, fault, maxSeq) == SetTakes(key, value, ttl, fault, maxSeq, 0)

\* A slip in Get: the lazy removal of an expired entry is logged as a DELETE.
GetLogsRemoval(w, key, removed) ==
    IF removed /\ walOn /\ w.fileOpen
    THEN WalAppend(w, "none", EntryTypeDELETE, key, <<>>, 0).w ELSE w

\* Get, lines 117-140: no statement of Get, on a hit, on a miss or on the
\* removal of an expired entry, calls cache.wal.
GetLog(w, key, removed) == w

\* LRUCache.Get
Get(key) ==
    /\ proc \in {"open", "closed"}
    /\ LET c == Cache(entries, evictList)
           present == GetPresent(c, key, now)
       IN /\ SetCache(GetItem(c, key, now))
          /\ SetWal(GetLog(WalState, key, key \in DOMAIN entries /\ ~present))
          /\ ret' = [Ret("Get", key, FALSE, present) EXCEPT !.value = GetValue(c, key, now)]
          /\ lru' = IF present THEN RefUse(lru, key, capacity) ELSE RefDrop(lru, key)
          /\ acked' = IF key \in DOMAIN entries /\ ~present
                      THEN [acked EXCEPT ![key] = NoAck] ELSE acked
    /\ UNCHANGED <<cfgVars, thrVars, now, proc>>

\* A slip in Delete: the DELETE record is appended before the lookup.
DeleteAbsentLogged(w, key) ==
    IF walOn /\ w.fileOpen THEN WalAppend(w, "none", EntryTypeDELETE, key, <<>>, 0)
    ELSE Out(FALSE, w)

\* Delete, lines 147-150: a key that is not in the map returns nil before the
\* call of Append.
DeleteAbsent(w, key) == Out(FALSE, w)

\* LRUCache.Delete
Delete(key, fault, maxSeq) ==
    /\ proc \in {"open", "closed"}
    /\ IF key \notin DOMAIN entries
       THEN /\ fault = "none"
            /\ SetWal(DeleteAbsent(WalState, key).w)
            /\ ret' = Ret("Delete", key, DeleteAbsent(WalState, key).err, FALSE)
            /\ UNCHANGED <<cacheVars, lru, acked>>
       ELSE /\ walOn => InBounds(WalState, maxSeq)
            /\ ~walOn => fault = "none"
            /\ LET a == IF walOn
                        THEN WalAppend(WalState, fault, EntryTypeDELETE, key, <<>>, 0)
                        ELSE Out(FALSE, WalState)
                   c == Commit(a.err, Cache(entries, evictList),
                               RemoveItem(Cache(entries, evictList), key))
               IN /\ SetWal(a.w)
                  /\ SetCache(c)
                  /\ ret' = Ret("Delete", key, a.err, FALSE)
                  /\ lru' = IF a.err THEN lru ELSE RefDrop(lru, key)
                  /\ acked' = IF a.err THEN acked
                              ELSE [acked EXCEPT ![key] = [kind |-> "del", value |-> 0]]
    /\ UNCHANGED <<cfgVars, thrVars, now, proc>>

\* LRUCache.Close
Close ==
    /\ proc = "open"
    /\ LET a == IF walOn THEN WalClose(WalState) ELSE Out(FALSE, WalState)
       IN /\ SetWal(a.w)
          /\ ret' = Ret("Close", "", a.err, FALSE)
    /\ proc' = "closed"
    /\ UNCHANGED <<cfgVars, thrVars, cacheVars, now, lru, acked>>

\* NewLRUCache over the directory as it is, with the configuration as before.
Open ==
    /\ proc \in {"closed", "down"}
    /\ LET w == IF walOn
                THEN NewWal(segments, IF proc = "down" THEN Len(segments[GetLastSegmentID(segments)].recs)
                                      ELSE durable)
                ELSE Out(FALSE, NoWal)
           r == IF walOn /\ ~w.err THEN recoverFromWAL(w.w.segments, now)
                ELSE Out(FALSE, EmptyCache)
           panic == walOn /\ (NewWalPanics(segments) \/ (~w.err /\ ReadAllPanics(w.w.segments)))
           err == w.err \/ r.err \/ panic
       IN /\ SetWal(IF err THEN NoWal ELSE w.w)
          /\ SetCache(IF err THEN EmptyCache ELSE r.w)
          /\ proc' = IF err THEN "down" ELSE "open"
          /\ ret' = IF panic THEN Ret("Panic", "", TRUE, FALSE) ELSE Ret("Open", "", err, FALSE)
          /\ lru' = IF err \/ ~walOn THEN <<>>
                    ELSE RefReplay(<<>>, ReadAll(w.w.segments).w, now, capacity)
    /\ UNCHANGED <<cfgVars, thrVars, now, acked>>

\* The disk damages one intact record of a segment while no process has the
\* directory open: its bytes no longer decode, or they decode to other fields.
Corrupt ==
    /\ proc \in {"closed", "down"}
    /\ walOn
    /\ \E id \in DOMAIN segments :
          \E i \in DOMAIN segments[id].recs :
             \E bad \in {Garbage, Damaged(segments[id].recs[i])} :
                /\ segments[id].recs[i].CRC = calculateCRC(segments[id].recs[i])
                /\ segments' = [segments EXCEPT ![id].recs[i] = bad]
    /\ UNCHANGED <<cfgVars, thrVars, cacheVars, lastSequenceNumber, currentSegment, fileOpen,
                   writerErr, durable, now, proc, ret, lru, acked>>

\* The process dies between two calls.  Records of the active segment that were
\* not fsynced may be lost, the first lost one leaving a fragment.
Crash(tails) ==
    /\ proc \in {"open", "closed"}
    /\ IF walOn
       THEN \E n \in durable..Len(segments[currentSegment].recs) :
            \E tail \in {"none"} \cup tails :
               /\ n = Len(segments[currentSegment].recs) => tail = segments[currentSegment].tail
               /\ segments' = [segments EXCEPT ![currentSegment] =
                                  File(SubSeq(@.recs, 1, n), tail)]
       ELSE UNCHANGED segments
    /\ lastSequenceNumber' = 0
    /\ currentSegment' = 0
    /\ fileOpen' = FALSE
    /\ writerErr' = FALSE
    /\ durable' = 0
    /\ SetCache(EmptyCache)
    /\ proc' = "down"
    /\ ret' = Ret("Crash", "", FALSE, FALSE)
    /\ lru' = <<>>
    /\ UNCHANGED <<cfgVars, thrVars, now, acked>>

\* The process dies inside an Append: after the rotation check, with nothing or
\* a fragment of the record in the file.
CrashInAppend(tails) ==
    /\ proc = "open"
    /\ walOn /\ fileOpen /\ ~writerErr
    /\ WillRotate(WalState) => GetLastSegmentID(segments) < MaxSegId
    /\ LET rot == checkAndRotateSegment(WalState, "none")
       IN \E tail \in {"none"} \cup tails :
             segments' = [rot.w.segments EXCEPT ![rot.w.currentSegment].tail = tail]
    /\ lastSequenceNumber' = 0
    /\ currentSegment' = 0
    /\ fileOpen' = FALSE
    /\ writerErr' = FALSE
    /\ durable' = 0
    /\ SetCache(EmptyCache)
    /\ proc' = "down"
    /\ ret' = Ret("Crash", "", FALSE, FALSE)
    /\ lru' = <<>>
    /\ UNCHANGED <<cfgVars, thrVars, now, acked>>

\* The timer of syncLoop fires.
SyncTick ==
    /\ proc = "open"
    /\ walOn
    /\ SetWal(WalSync(WalState))
    /\ UNCHANGED <<cfgVars, thrVars, cacheVars, now, proc, ret, lru, acked>>

\* Time passes.
Tick ==
    /\ now < MaxTime
    /\ now' = now + 1
    /\ UNCHANGED <<cfgVars, thrVars, cacheVars, walVars, proc, ret, lru, acked>>

\* ---------------------------------------------------------- specifications
\* The cache over its WAL: every operation, I/O failures, crashes and restarts,
\* rotation and retention; entries do not expire.  A segment holds one record
\* and one or two segments are kept, or it holds two and one is kept.
Init ==
    \/ InitWith(Capacities, {TRUE}, BOOLEAN, {1}, SegmentLimits)
    \/ InitWith(Capacities, {TRUE}, BOOLEAN, {2}, {1})

Next ==
    \/ \E k \in Keys, f \in FaultsRestart : Set(k, 1, 0, f, MaxSeq)
    \/ \E k \in Keys : Get(k)
    \/ \E k \in Keys, f \in FaultsRestart : Delete(k, f, MaxSeq)
    \/ Close
    \/ Open
    \/ Crash({"body"})
    \/ CrashInAppend({"body"})
    \/ SyncTick

Spec == Init /\ [][Next]_vars

\* Expiry across restarts: the clock moves, no I/O failure, no rotation.
InitTTL == InitWith({2}, {TRUE}, {TRUE}, {MaxSeqTTL + 1}, {2})

NextTTL ==
    \/ \E k \in Keys, v \in Values, ttl \in TTLs : Set(k, v, ttl, "none", MaxSeqTTL)
    \/ \E k \in Keys : Get(k)
    \/ \E k \in Keys : Delete(k, "none", MaxSeqTTL)
    \/ Close
    \/ Open
    \/ Crash({})
    \/ Tick

SpecTTL == InitTTL /\ [][NextTTL]_vars

\* One cache from NewLRUCache to Close, with and without a WAL, no I/O failure.
InitLive == InitWith(Capacities, BOOLEAN, BOOLEAN, {1}, {2})

NextLive ==
    \/ \E k \in KeysReplay, ttl \in TTLs : Set(k, 1, ttl, "none", MaxSeqLive)
    \/ \E k \in KeysReplay : Get(k)
    \/ \E k \in KeysReplay : Delete(k, "none", MaxSeqLive)
    \/ Close
    \/ SyncTick
    \/ Tick

SpecLive == InitLive /\ [][NextLive]_vars

\* One cache from NewLRUCache to Close over a WAL whose Append may fail at
\* every place it can.
InitFault == InitWith(Capacities, {TRUE}, BOOLEAN, {1}, {2})

NextFault ==
    \/ \E k \in Keys, v \in Values, f \in Faults : Set(k, v, 0, f, MaxSeqFault)
    \/ \E k \in Keys : Get(k)
    \/ \E k \in Keys, f \in Faults : Delete(k, f, MaxSeqFault)
    \/ Close
    \/ SyncTick

SpecFault == InitFault /\ [][NextFault]_vars

\* Restarts over a log that is never rotated, with no I/O failure and fsync on
\* every Append: what recovery makes of the records of a longer run.
InitReplay == InitWith({2}, {TRUE}, {TRUE}, {MaxSeqReplay + 1}, {2})

NextReplay ==
    \/ \E k \in KeysReplay : Set(k, 1, 0, "none", MaxSeqReplay)
    \/ \E k \in KeysReplay : Get(k)
    \/ \E k \in KeysReplay : Delete(k, "none", MaxSeqReplay)
    \/ Close
    \/ Open
    \/ Crash({})

SpecReplay == InitReplay /\ [][NextReplay]_vars

\* One process on an empty directory whose every Append after the first
\* rotates, keeping zero to three segments: the current segment's id is the
\* number of rotations completed.
InitRotate == InitWith({1}, {TRUE}, {TRUE}, {1}, SegmentLimitsRotate)

NextRotate ==
    \/ \E k \in Keys, f \in {"none", "flush"} : Set(k, 1, 0, f, MaxSeqRotate)
    \/ \E k \in Keys : Get(k)
    \/ \E k \in Keys, f \in {"none", "flush"} : Delete(k, f, MaxSeqRotate)
    \/ Close
    \/ SyncTick

SpecRotate == InitRotate /\ [][NextRotate]_vars

\* Restarts over segments of two records that the disk may damage.
InitCorrupt == InitWith({2}, {TRUE}, {TRUE}, {2}, {2})

NextCorrupt ==
    \/ \E k \in Keys : Set(k, 1, 0, "none", MaxSeqCorrupt)
    \/ \E k \in Keys : Get(k)
    \/ \E k \in Keys : Delete(k, "none", MaxSeqCorrupt)
    \/ Close
    \/ Open
    \/ Corrupt

SpecCorrupt == InitCorrupt /\ [][NextCorrupt]_vars

\* ------------------------------------------------------------------ claims
KeySeq(l) == [i \in DOMAIN l |-> l[i].key]
\* The records recovery is handed: every retained segment in id order.
Logged == ReadAll(segments).w
IsSet(e) == e.Type = EntryTypeSET
IsDelete(e) == e.Type = EntryTypeDELETE
\* The position of the last record of key k in the log, 0 if there is none.
LastOf(recs, k) ==
    LET at == {i \in DOMAIN recs : recs[i].Key = k} IN IF at = {} THEN 0 ELSE Max(at)
LastSetOf(recs, k) ==
    LET at == {i \in DOMAIN recs : recs[i].Key = k /\ IsSet(recs[i])}
    IN IF at = {} THEN 0 ELSE Max(at)
Opened == ret.op = "Open" /\ ~ret.err
Used == (ret.op = "Set" /\ ~ret.err) \/ (ret.op = "Get" /\ ret.present)

\* C1 (P1, size bound): in every reachable state, restarts with WAL replay
\* included, the entry map holds at most capacity entries.
P1_SizeBound == Cardinality(DOMAIN entries) <= capacity

\* C2 (P2, key uniqueness): between calls, also right after Open has replayed
\* a log, the recency list holds each key at most once and its keys are
\* exactly the keys of the entry map.
P2_KeyUniqueness ==
    /\ \A i, j \in DOMAIN evictList : evictList[i].key = evictList[j].key => i = j
    /\ ListKeys(evictList) = DOMAIN entries

\* C3 (strict LRU): from NewLRUCache on, under Set, Get and Delete, the
\* recency list is the order of a reference LRU of the same capacity and the
\* entry map holds exactly its keys: a Set of a new key into a full cache
\* removes the one key whose last Set or successful Get is the oldest.
StrictLRU ==
    /\ KeySeq(evictList) = lru
    /\ DOMAIN entries = Range(lru)

\* C3 witness: capacity 1, two non-expiring Sets of different keys logged and
\* nothing else: the second Set evicted the first key.
StrictLRU_Witness ==
    /\ walOn /\ capacity = 1
    /\ ret.op = "Set" /\ ~ret.err
    /\ Len(Logged) = 2
    /\ \A i \in 1..2 : IsSet(Logged[i]) /\ Logged[i].ExpiresAtUnixNano = 0
    /\ Logged[1].Key # Logged[2].Key
    /\ DOMAIN entries = {Logged[2].Key}

\* C4 (P3, recency monotonicity): after a successful Set(k) or a Get(k) that
\* returned present, k is at the front of the recency list, and the front key
\* changes only by such a call on another key or by the removal of the key.
P3_RecencyMonotonic ==
    [][/\ Used' => (evictList' # <<>> /\ evictList'[1].key = ret'.key)
       /\ (evictList # <<>> /\ (evictList' = <<>> \/ evictList'[1].key # evictList[1].key))
             => \/ Used' /\ ret' # ret /\ ret'.key # evictList[1].key
                \/ evictList[1].key \notin DOMAIN entries']_vars

\* C4 witness: a Get that returned present for a key that a later-used key had
\* pushed from the front (both resident, the hit key in front).
P3_Witness ==
    /\ ret.op = "Get" /\ ret.present
    /\ Len(evictList) = 2
    /\ evictList[1].key = ret.key
    /\ entries[ret.key].createdAt < entries[evictList[2].key].createdAt

\* C5 (write-ahead atomicity): with the WAL enabled, a Set or Delete whose
\* Append returned an error returns an error and leaves the entry map and the
\* recency list as they were.
WalFailureAtomic ==
    [][(walOn /\ ret'.op \in {"Set", "Delete"} /\ ret'.err)
          => (entries' = entries /\ evictList' = evictList)]_vars

\* C5 witness: a Set failed for a resident key that is not at the front of the
\* list: an overwrite would have moved it there.
WalFailureAtomic_Witness ==
    /\ walOn /\ ret.op = "Set" /\ ret.err
    /\ Len(evictList) = 2
    /\ evictList[2].key = ret.key
    /\ ret.key \in DOMAIN entries

\* C6 (P7, durability): with force_sync, after a crash and a re-Open every key
\* reflects its last mutation that returned success: the value of a
\* non-expiring Set not displaced by capacity, absent after a Delete.
P7_Durability ==
    (Opened /\ walOn /\ forceFSync) =>
        \A k \in AllKeys :
            /\ acked[k].kind = "set" =>
                  (k \in DOMAIN entries /\ entries[k].value = acked[k].value)
            /\ acked[k].kind = "del" => k \notin DOMAIN entries

\* C7 (R3, recovery round trip): with at most capacity distinct keys set, all
\* with ttl 0, Close followed by Open gives every resident key the value of
\* its last Set before Close.
R3_RecoveryRoundTrip ==
    [][(proc = "closed" /\ proc' = "open" /\ walOn
          /\ Cardinality({Logged[i].Key : i \in DOMAIN Logged}) <= capacity)
          => \A k \in DOMAIN entries :
                entries[k].TTL = 0 =>
                    /\ GetPresent(Cache(entries', evictList'), k, now')
                    /\ entries'[k].value = entries[k].value]_vars

\* C8 (R4, expiry across restart): after Open a key whose most recent logged
\* Set carried a ttl that has elapsed is not present, whatever older records
\* of the key the log holds.
R4_ExpiryAcrossRestart ==
    (Opened /\ walOn) =>
        \A k \in AllKeys :
            LET i == LastSetOf(Logged, k)
            IN (i > 0 /\ Logged[i].ExpiresAtUnixNano > 0 /\ now > Logged[i].ExpiresAtUnixNano)
                  => ~GetPresent(Cache(entries, evictList), k, now)

\* C9 (deletes survive restart): after Open every key whose last logged
\* mutation is a DELETE is absent, and Open fails only on a segment it cannot
\* read, never on a DELETE of a key that is absent during the replay.
DeletesSurviveRestart ==
    /\ (Opened /\ walOn) =>
          \A k \in AllKeys :
              LET i == LastOf(Logged, k)
              IN (i > 0 /\ IsDelete(Logged[i])) => k \notin DOMAIN entries
    /\ (ret.op = "Open" /\ ret.err) =>
          segments[GetLastSegmentID(segments)].tail # "none"

\* C9 witness: Open replayed a SET of a key and then its DELETE.
DeletesSurviveRestart_Witness ==
    /\ Opened /\ walOn
    /\ \E i, j \in DOMAIN Logged :
          /\ i < j /\ j = LastOf(Logged, Logged[i].Key)
          /\ IsSet(Logged[i]) /\ IsDelete(Logged[j])

\* C10 (P4, sequence monotonicity): the retained segments read in ascending id
\* order hold strictly increasing sequence numbers, across rotations, restarts
\* and a crash that leaves the highest segment empty.
P4_SequenceMonotonic ==
    \A i, j \in DOMAIN Logged :
        i < j => Logged[i].SequenceNumber < Logged[j].SequenceNumber

\* C11 (Append advances last_seq only on success): a Set or Delete whose
\* Append returned an error leaves the WAL's lastSequenceNumber as it was.
AppendAdvancesOnlyOnSuccess ==
    [][(walOn /\ ret'.op \in {"Set", "Delete"} /\ ret'.err)
          => lastSequenceNumber' = lastSequenceNumber]_vars

\* A step in which Append's rotation check created the next segment.
Rotated == proc = "open" /\ proc' = "open" /\ currentSegment' # currentSegment

\* C12 (P6, retention bound) as stated: for every max_segments value, right
\* after a rotation the directory holds at most max_segments segment files.
P6_RetentionBound ==
    [][Rotated => Cardinality(DOMAIN segments') <= maxSegments]_vars

\* C12 amended: the bound holds for every max_segments of at least 1 (the new
\* segment is itself a file, so a rotation leaves at least one).
P6_RetentionBound_Positive ==
    [][(Rotated /\ maxSegments >= 1) => Cardinality(DOMAIN segments') <= maxSegments]_vars

\* C12 witness: two segments are kept and the rotation that created segment 2
\* removed segment 0.
P6_Witness ==
    /\ proc = "open" /\ maxSegments = 2
    /\ DOMAIN segments = {1, 2}
    /\ currentSegment = 2

\* C13 (rotation scenario) as stated: from an empty directory with
\* max_segments 3, after the sixth rotation the segment ids are 3, 4 and 5.
RotationScenario_Sixth ==
    (maxSegments = 3 /\ currentSegment = 6) => DOMAIN segments = {3, 4, 5}

\* C13 amended: six segments have been created after the fifth rotation, and
\* then the ids are 3, 4 and 5; after the sixth rotation they are 4, 5 and 6.
RotationScenario_SixSegments ==
    /\ (maxSegments = 3 /\ currentSegment = 5) => DOMAIN segments = {3, 4, 5}
    /\ (maxSegments = 3 /\ currentSegment = 6) => DOMAIN segments = {4, 5, 6}

\* C13 witness: the sixth rotation has completed with three segments kept.
RotationScenario_Witness ==
    /\ proc = "open" /\ maxSegments = 3
    /\ currentSegment = 6
    /\ Cardinality(DOMAIN segments) = 3

\* A step that is a call of Get (Tick and SyncTick leave ret alone).
GetStep == ret'.op = "Get" /\ now' = now /\ UNCHANGED <<walVars, proc>>

\* C14 (P8, TTL correctness): a Get of an entry with ttl > 0 at a time after
\* createdAt + ttl returns not present and removes the entry from the map and
\* its node from the list; at a time up to createdAt + ttl it returns the
\* stored value; an entry with ttl 0 is always returned.
P8_TTLCorrectness ==
    [][(GetStep /\ ret'.key \in DOMAIN entries) =>
          LET k == ret'.key
              item == entries[k]
          IN IF item.TTL > 0 /\ item.createdAt + item.TTL < now
             THEN /\ ~ret'.present /\ ret'.value = 0
                  /\ k \notin DOMAIN entries'
                  /\ \A i \in DOMAIN evictList' :
                        ~(evictList'[i].key = k /\ evictList'[i].item)
                  /\ Len(evictList') = Len(evictList) - 1
             ELSE /\ ret'.present /\ ret'.value = item.value
                  /\ entries' = entries]_vars

\* C14 witness: a Get at instant 2 found its key, last set with a ttl that
\* ran out at instant 1, expired and removed it.
P8_Witness_Expired ==
    /\ ret.op = "Get" /\ ~ret.present
    /\ now = 2 /\ walOn
    /\ ret.key \notin DOMAIN entries
    /\ \E i \in DOMAIN Logged :
          /\ Logged[i].Key = ret.key
          /\ Logged[i].ExpiresAtUnixNano = 1
          /\ i = LastOf(Logged, ret.key)

\* C15 (torn-tail tolerance): when the highest segment ends in a partial
\* record, Open succeeds and the cache holds what the replay of the complete
\* records gives.
TornTailTolerated ==
    (ret.op = "Open" /\ walOn /\ segments[GetLastSegmentID(segments)].tail # "none") =>
        /\ ~ret.err
        /\ Cache(entries, evictList) = Replay(EmptyCache, Logged, now)

\* Every record in the files, whatever its state.
OnDisk == UNION {Range(segments[id].recs) : id \in DOMAIN segments}
Intact(r) == r.CRC = calculateCRC(r)

\* C16 (P5, CRC integrity): every record ReadAll yields carries the CRC of its
\* other fields, and every entry of the recovered cache comes from a SET
\* record in the files whose CRC matches.
P5_CRCIntegrity ==
    (Opened /\ walOn) =>
        /\ \A i \in DOMAIN Logged : Intact(Logged[i])
        /\ \A k \in DOMAIN entries :
              \E r \in OnDisk :
                 /\ Intact(r) /\ IsSet(r) /\ r.Key = k
                 /\ deserializeValue(r.Value) = entries[k].value

\* C16 witness: Open succeeded over files holding a record that decodes and
\* fails its CRC, and recovered an entry.
P5_Witness ==
    /\ Opened /\ walOn
    /\ \E r \in OnDisk : r # Garbage /\ ~Intact(r)
    /\ entries # NoEntries

\* The records of a segment before the first one that does not decode or
\* fails its CRC, and those of all segments in id order.
RECURSIVE IntactPrefix(_)
IntactPrefix(recs) ==
    IF recs = <<>> \/ Head(recs) = Garbage \/ ~Intact(Head(recs)) THEN <<>>
    ELSE <<Head(recs)>> \o IntactPrefix(Tail(recs))
RECURSIVE IntactOf(_, _)
IntactOf(segs, ids) ==
    IF ids = <<>> THEN <<>>
    ELSE IntactPrefix(segs[Head(ids)].recs) \o IntactOf(segs, Tail(ids))

\* C17 (corruption containment): over files with a record that does not
\* decode or fails its CRC, and no partial record, Open neither panics nor
\* returns an error, and recovers from the intact records before the bad one
\* in its segment and those of every other segment.
CorruptionContained ==
    (ret.op \in {"Open", "Panic"} /\ walOn
       /\ \A id \in DOMAIN segments : segments[id].tail = "none") =>
        /\ ret.op = "Open" /\ ~ret.err
        /\ Cache(entries, evictList)
              = Replay(EmptyCache, IntactOf(segments, SortedIds(DOMAIN segments)), now)

\* C20 (R1, live round trip): a Get of a key whose last successful mutation is
\* a Set without expiry, and which was not evicted since, returns present and
\* the value of that Set: after several Sets, the most recent one.
R1_LiveRoundTrip ==
    [][(GetStep /\ acked[ret'.key].kind = "set")
         => (ret'.present /\ ret'.value = acked[ret'.key].value)]_vars
\* A Get returned the value of an overwriting Set: the log holds two Sets of
\* the key with different values.
R1_Witness ==
    /\ ret.op = "Get" /\ ret.present
    /\ acked[ret.key].kind = "set" /\ ret.value = acked[ret.key].value
    /\ \E i, j \in DOMAIN Logged :
          /\ i < j /\ IsSet(Logged[i]) /\ IsSet(Logged[j])
          /\ Logged[i].Key = ret.key /\ Logged[j].Key = ret.key
          /\ Logged[i].Value # Logged[j].Value

\* ------------------------------------------------------------- goroutines
\* The calls of Set, Get, Delete and Close step by step, as several goroutines
\* run them against one cache, next to the syncLoop goroutine.  A position is
\*   "idle"    outside every call
\*   "mu"      in cache.mu.Lock(), first statement of Set, Get and Delete
\*   "in"      holding cache.mu, before the body of Get or Delete
\*   "lock"    in wal.lock.Lock(), first statement of Append, Close and of a
\*             fire of syncLoop's timer
\*   "append"  holding wal.lock in Append    "close"  holding it in WAL.Close
\*   "sync"    holding wal.lock in syncLoop    "reset"  before syncTimer.Reset
\*   "done"    syncLoop has returned
\*   "commit"  back from Append in Set or Delete, holding cache.mu
MaxSeqThreads == 2
MaxSeqReadAll == 3
CallOps == {"Set", "Get", "Delete", "Close"}
At(g, pc) == goroutines[g].pc = pc
Goto(g, pc) == [goroutines EXCEPT ![g].pc = pc]
\* Appends that goroutines are committed to and have not performed yet.
PendingAppends ==
    Cardinality({g \in Callers : /\ goroutines[g].op \in {"Set", "Delete"}
                                 /\ goroutines[g].pc \in {"mu", "in", "lock"}})

\* A slip in Get: it takes the read lock, which other readers do not exclude.
TryLockShared(op) == mu = Unlocked \/ op = "Get"

\* sync.RWMutex.Lock on cache.mu returns only while nobody holds it.
TryLock(op) == mu = Unlocked

\* A slip in the WAL: a path that returns with wal.lock still held.
UnlockMissing(g) == g

\* sync.Mutex.Unlock, written or deferred: the mutex of holder g is free again.
Unlock(g) == Unlocked

\* syncTimer.Stop() in WAL.Close: the timer no longer runs; a value it sent
\* before stays in its channel.
TimerStop(t) == IF t = "armed" THEN {"armed", "stopped"} ELSE {t}

\* A goroutine starts a call.
Call(g, op, key, maxSeq) ==
    /\ At(g, "idle")
    /\ proc \in {"open", "closed"}
    /\ op \in {"Set", "Delete"} => lastSequenceNumber + PendingAppends < maxSeq
    /\ goroutines' = [goroutines EXCEPT
                        ![g] = [pc |-> IF op = "Close" THEN "lock" ELSE "mu",
                                op |-> op, key |-> IF op = "Close" THEN "" ELSE key,
                                err |-> FALSE]]
    /\ UNCHANGED <<cfgVars, syncTimer, applied, cacheVars, walVars, now, proc, ret, lru, acked, mu, lock>>

\* A slip in Set and Delete: the cache mutex is not taken.
LockSkipped(g) == Unlocked

\* cache.mu after cache.mu.Lock() returned in goroutine g.
Lock(g) == g

\* cache.mu.Lock() returns.  Set goes on into Append (its first use of shared
\* state), Get and Delete into their lookup.
MuLock(g) ==
    /\ At(g, "mu")
    /\ TryLock(goroutines[g].op)
    /\ mu' = Lock(g)
    /\ goroutines' = Goto(g, IF goroutines[g].op = "Set" /\ walOn THEN "lock"
                             ELSE IF goroutines[g].op = "Set" THEN "commit" ELSE "in")
    /\ UNCHANGED <<cfgVars, syncTimer, applied, cacheVars, walVars, now, proc, ret, lru, acked, lock>>

\* The body of Get and its deferred Unlock.
GetBody(g) ==
    /\ At(g, "in") /\ goroutines[g].op = "Get"
    /\ LET c == Cache(entries, evictList)
           key == goroutines[g].key
           present == GetPresent(c, key, now)
       IN /\ SetCache(GetItem(c, key, now))
          /\ ret' = [Ret("Get", key, FALSE, present) EXCEPT !.value = GetValue(c, key, now)]
          /\ lru' = IF present THEN RefUse(lru, key, capacity) ELSE RefDrop(lru, key)
          /\ acked' = IF key \in DOMAIN entries /\ ~present
                      THEN [acked EXCEPT ![key] = NoAck] ELSE acked
    /\ mu' = Unlock(g)
    /\ goroutines' = [goroutines EXCEPT ![g] = Idle]
    /\ UNCHANGED <<cfgVars, syncTimer, applied, walVars, now, proc, lock>>

\* Delete, lines 147-157: an absent key returns nil, a present one goes into
\* Append.
DeleteLookup(g) ==
    /\ At(g, "in") /\ goroutines[g].op = "Delete"
    /\ IF goroutines[g].key \notin DOMAIN entries
       THEN /\ ret' = Ret("Delete", goroutines[g].key, FALSE, FALSE)
            /\ mu' = Unlock(g)
            /\ goroutines' = [goroutines EXCEPT ![g] = Idle]
       ELSE /\ goroutines' = Goto(g, IF walOn THEN "lock" ELSE "commit")
            /\ UNCHANGED <<ret, mu>>
    /\ UNCHANGED <<cfgVars, syncTimer, applied, cacheVars, walVars, now, proc, lru, acked, lock>>

\* wal.lock.Lock() returns, in Append, in WAL.Close or in syncLoop.
WalLock(g) ==
    /\ At(g, "lock")
    /\ lock = Unlocked
    /\ lock' = g
    /\ goroutines' = Goto(g, IF g = syncLoop THEN "sync"
                             ELSE IF goroutines[g].op = "Close" THEN "close" ELSE "append")
    /\ UNCHANGED <<cfgVars, syncTimer, applied, cacheVars, walVars, now, proc, ret, lru, acked, mu>>

\* The body of Append and its deferred Unlock.
AppendBody(g, fault) ==
    /\ At(g, "append")
    /\ LET a == IF goroutines[g].op = "Set"
                THEN WalAppend(WalState, fault, EntryTypeSET, goroutines[g].key,
                               serializeValue(1), 0)
                ELSE WalAppend(WalState, fault, EntryTypeDELETE, goroutines[g].key, <<>>, 0)
       IN /\ SetWal(a.w)
          /\ goroutines' = [goroutines EXCEPT ![g].pc = "commit", ![g].err = a.err]
    /\ lock' = Unlock(g)
    /\ UNCHANGED <<cfgVars, syncTimer, applied, cacheVars, now, proc, ret, lru, acked, mu>>

\* Set and Delete after Append: the error return or the change of the map and
\* the list, and the deferred Unlock of cache.mu.
CommitBody(g) ==
    /\ At(g, "commit")
    /\ LET key == goroutines[g].key
           err == goroutines[g].err
           old == Cache(entries, evictList)
           c == Commit(err, old, IF goroutines[g].op = "Set"
                                 THEN SetItem(old, key, 1, 0, now)
                                 ELSE RemoveItem(old, key))
           evicted == DOMAIN entries \ DOMAIN c.entries
       IN /\ SetCache(c)
          /\ ret' = Ret(goroutines[g].op, key, err, FALSE)
          /\ lru' = IF err THEN lru
                    ELSE IF goroutines[g].op = "Set" THEN RefUse(lru, key, capacity)
                    ELSE RefDrop(lru, key)
          /\ acked' = IF err THEN acked
                      ELSE IF goroutines[g].op = "Delete"
                      THEN [acked EXCEPT ![key] = [kind |-> "del", value |-> 0]]
                      ELSE [k \in AllKeys |->
                              IF k = key THEN [kind |-> "set", value |-> 1]
                              ELSE IF k \in evicted THEN NoAck ELSE acked[k]]
    /\ applied' = IF goroutines[g].err THEN applied
                   ELSE Append(applied, [op |-> goroutines[g].op, key |-> goroutines[g].key])
    /\ mu' = Unlock(g)
    /\ goroutines' = [goroutines EXCEPT ![g] = Idle]
    /\ UNCHANGED <<cfgVars, syncTimer, walVars, now, proc, lock>>

\* The body of WAL.Close and its deferred Unlock; LRUCache.Close returns.
CloseBody(g) ==
    /\ At(g, "close")
    /\ LET a == WalClose(WalState)
       IN /\ SetWal(a.w)
          /\ ret' = Ret("Close", "", a.err, FALSE)
    /\ proc' = "closed"
    /\ syncTimer' \in TimerStop(syncTimer)
    /\ lock' = Unlock(g)
    /\ goroutines' = [goroutines EXCEPT ![g] = Idle]
    /\ UNCHANGED <<cfgVars, applied, cacheVars, now, lru, acked, mu>>

\* syncLoop's select takes the case of the timer: a value was received, and the
\* timer is not running until its Reset.  The select chooses among the ready
\* cases, so this case can be taken after the context was cancelled as well.
SyncFire ==
    /\ At(syncLoop, "idle")
    /\ walOn /\ syncTimer = "armed"
    /\ syncTimer' = "stopped"
    /\ goroutines' = Goto(syncLoop, "lock")
    /\ UNCHANGED <<cfgVars, applied, cacheVars, walVars, now, proc, ret, lru, acked, mu, lock>>

\* Flush and Sync in syncLoop, and its Unlock.
SyncBody ==
    /\ At(syncLoop, "sync")
    /\ SetWal(WalSync(WalState))
    /\ lock' = Unlock(syncLoop)
    /\ goroutines' = Goto(syncLoop, "reset")
    /\ UNCHANGED <<cfgVars, syncTimer, applied, cacheVars, now, proc, ret, lru, acked, mu>>

\* wal.syncTimer.Reset(syncInterval), line 659, and back to the select.
SyncReset ==
    /\ At(syncLoop, "reset")
    /\ syncTimer' = "armed"
    /\ goroutines' = Goto(syncLoop, "idle")
    /\ UNCHANGED <<cfgVars, applied, cacheVars, walVars, now, proc, ret, lru, acked, mu, lock>>

\* A slip in WAL.Close: no call of wal.cancel().
ctxNeverDone == FALSE

\* wal.ctx.Done() is closed: WAL.Close has called wal.cancel(), lines 669-670.
ctxDone == proc = "closed"

\* syncLoop's select takes the case of wal.ctx.Done(): the goroutine returns.
SyncReturn ==
    /\ At(syncLoop, "idle")
    /\ ctxDone
    /\ goroutines' = Goto(syncLoop, "done")
    /\ UNCHANGED <<cfgVars, syncTimer, applied, cacheVars, walVars, now, proc, ret, lru, acked, mu, lock>>

\* Two callers and syncLoop over a cache of one entry with its WAL: every
\* interleaving of the steps of their calls, Appends that may fail in Flush.
InitThreads == InitWith({1}, {TRUE}, {FALSE}, {2}, {2})

NextThreads ==
    \/ \E g \in Callers, op \in CallOps, k \in Keys : Call(g, op, k, MaxSeqThreads)
    \/ \E g \in Callers : MuLock(g)
    \/ \E g \in Callers : GetBody(g)
    \/ \E g \in Callers : DeleteLookup(g)
    \/ \E g \in Goroutines : WalLock(g)
    \/ \E g \in Callers, f \in {"none", "flush"} : AppendBody(g, f)
    \/ \E g \in Callers : CommitBody(g)
    \/ \E g \in Callers : CloseBody(g)
    \/ SyncFire
    \/ SyncBody
    \/ SyncReset
    \/ SyncReturn

SpecThreads == InitThreads /\ [][NextThreads]_vars

\* Holding cache.mu: past its Lock and before its Unlock.
InsideMu(g) ==
    \/ goroutines[g].pc \in {"in", "append", "commit"}
    \/ goroutines[g].pc = "lock" /\ goroutines[g].op # "Close"
\* At most one caller is inside Set, Get or Delete, and it is the holder.
MutualExclusion == \A g \in Callers : InsideMu(g) => mu = g
\* The map and the list are what the calls that took effect so far, one after
\* the other, leave behind: the reference order, and per key the value of its
\* last Set.
Linearized ==
    /\ KeySeq(evictList) = lru
    /\ DOMAIN entries = Range(lru)
    /\ \A k \in Keys : IF k \in DOMAIN entries
                       THEN acked[k] = [kind |-> "set", value |-> entries[k].value]
                       ELSE acked[k].kind # "set"
GetReturns ==
    \E g \in Callers : /\ At(g, "in") /\ goroutines[g].op = "Get"
                       /\ goroutines'[g].pc = "idle"

\* C18 (thread safety): among concurrent calls of Set, Get and Delete at most
\* one is between its Lock and its Unlock of the cache mutex; whenever the
\* mutex is free the map and the list are the result of the calls that took
\* effect, in the order of their single steps of effect; and a Get returns
\* what the calls that took effect before it left for its key.
ThreadSafety ==
    [][/\ MutualExclusion'
       /\ mu' = Unlocked => Linearized'
       /\ GetReturns => /\ ret'.present = (acked[ret'.key].kind = "set")
                        /\ ret'.value = acked[ret'.key].value]_vars
\* A Set of a resident key is about to overwrite it while the other caller,
\* with a call on the same key, waits for the cache mutex.
ThreadSafety_Witness ==
    \E g, h \in Callers :
       /\ g # h
       /\ At(g, "commit") /\ goroutines[g].op = "Set" /\ ~goroutines[g].err
       /\ goroutines[g].key \in DOMAIN entries
       /\ At(h, "mu") /\ goroutines[h].key = goroutines[g].key

\* Inside a call of the cache, or in a round of syncLoop past its select.
InCall(g) == ~At(g, "idle") /\ ~At(g, "done")
\* The step a goroutine inside a call takes next.
Step(g) ==
    \/ MuLock(g) \/ GetBody(g) \/ DeleteLookup(g) \/ WalLock(g)
    \/ \E f \in {"none", "flush"} : AppendBody(g, f)
    \/ CommitBody(g) \/ CloseBody(g)
    \/ (g = syncLoop /\ (SyncBody \/ SyncReset \/ SyncReturn))
\* A goroutine holding the WAL mutex is not waiting for the cache mutex, and
\* a caller that waits for the WAL mutex in Append already holds the cache
\* mutex.
LockOrder ==
    \A g \in Goroutines :
       /\ lock = g => ~At(g, "mu")
       /\ (At(g, "lock") /\ goroutines[g].op \in {"Set", "Delete"}) => mu = g

\* C19 (deadlock freedom): whenever some goroutine is inside a call, one of
\* those inside a call can take its next step; and the cache mutex is taken
\* before the WAL mutex.
DeadlockFree ==
    /\ (\E g \in Goroutines : InCall(g))
          => \E g \in Goroutines : InCall(g) /\ ENABLED Step(g)
    /\ LockOrder
\* syncLoop holds the WAL mutex; one caller waits for it inside Set, holding
\* the cache mutex, and the other waits for it in Close.
DeadlockFree_Witness ==
    /\ lock = syncLoop
    /\ \E g, h \in Callers :
          /\ At(g, "lock") /\ goroutines[g].op = "Set" /\ mu = g
          /\ At(h, "lock") /\ goroutines[h].op = "Close"

\* C21 (R2, delete round trip): right after a Delete that returned nil its key
\* is in neither the entry map nor the recency list, and a Get of a key whose
\* last successful mutation is a Delete returns not present.
R2_DeleteRoundTrip ==
    [][/\ (ret'.op = "Delete" /\ ~ret'.err /\ proc' = "open")
            => /\ ret'.key \notin DOMAIN entries'
               /\ ret'.key \notin ListKeys(evictList')
       /\ (GetStep /\ acked[ret'.key].kind = "del") => ~ret'.present]_vars

\* C22 (reads leave the log alone): a step that ends with a Get as the last
\* call (every Get is one: a hit, a miss, the removal of an expired entry) adds
\* no record, leaves lastSequenceNumber as it was and changes no segment file.
ReadsLeaveLogAlone ==
    [][ret'.op = "Get"
         => UNCHANGED <<lastSequenceNumber, segments, currentSegment, fileOpen, writerErr>>]_vars
\* A Get found its key expired and removed it; the log still is the one SET
\* record of that key.
ReadsLeaveLogAlone_Witness ==
    /\ ret.op = "Get" /\ ~ret.present /\ walOn
    /\ ret.key \notin DOMAIN entries
    /\ lastSequenceNumber = 1
    /\ Len(Logged) = 1
    /\ Logged[1].Key = ret.key /\ IsSet(Logged[1])
    /\ Logged[1].ExpiresAtUnixNano > 0 /\ Logged[1].ExpiresAtUnixNano < now

\* C23 (Delete of an absent key is a no-op): a Delete whose key is not in the
\* entry map returns nil, appends no record, leaves lastSequenceNumber as it
\* was and leaves the entry map and the recency list unchanged.
DeleteAbsentNoOp ==
    [][(ret'.op = "Delete" /\ ret'.key \notin DOMAIN entries)
         => /\ ~ret'.err
            /\ UNCHANGED <<lastSequenceNumber, segments, currentSegment, entries, evictList>>]_vars
\* A Delete of a key that was never set returned nil next to a resident key,
\* over a log that holds the records of the other key only.
DeleteAbsentNoOp_Witness ==
    /\ ret.op = "Delete" /\ ~ret.err /\ walOn /\ proc = "open"
    /\ entries # NoEntries
    /\ Len(Logged) > 0
    /\ \A i \in DOMAIN Logged : Logged[i].Key # ret.key

\* The call each record of a log was appended for.
CallsOf(recs) ==
    [i \in DOMAIN recs |->
        [op |-> IF IsSet(recs[i]) THEN "Set" ELSE "Delete", key |-> recs[i].Key]]
LoggedCalls == CallsOf(Logged)

\* C24 (log order equals application order): in every interleaving of Sets
\* and Deletes of two goroutines the records are on disk in the order of their
\* sequence numbers, the calls applied to the map and the list so far are, in
\* the order of their application, the calls of the records on disk, one
\* record each, and at most the last record is one whose call is applied next.
LogOrderIsApplicationOrder ==
    LET recs == Logged
        calls == CallsOf(recs)
    IN /\ \A i \in 1..(Len(recs) - 1) :
             recs[i].SequenceNumber < recs[i + 1].SequenceNumber
       /\ Len(applied) <= Len(calls)
       /\ SubSeq(calls, 1, Len(applied)) = applied
       /\ IF \E g \in Callers : At(g, "commit") /\ ~goroutines[g].err
          THEN Len(calls) = Len(applied) + 1
          ELSE Len(calls) = Len(applied)
\* One call was applied, the record of a second call of another key is on disk
\* and its goroutine is about to apply it, while the other goroutine waits for
\* the cache mutex with a third call.
LogOrder_Witness ==
    /\ Len(applied) = 1 /\ Len(LoggedCalls) = 2
    /\ LoggedCalls[2].key # applied[1].key
    /\ \E g, h \in Callers :
          /\ At(g, "commit") /\ ~goroutines[g].err
          /\ goroutines[g].key = LoggedCalls[2].key
          /\ At(h, "mu")

\* Two callers that set one key and close the cache, next to syncLoop, under
\* the fairness the runtime gives: a goroutine that can run does run (weak
\* fairness of the steps that need no mutex); sync.Mutex hands the mutex to a
\* goroutine that keeps waiting for it (strong fairness of wal.lock.Lock() in
\* syncLoop); and a select takes each case that is ready again and again in
\* the end, its choice among the ready cases being uniformly random (strong
\* fairness of the case of wal.ctx.Done()).
InitSync == InitWith({1}, {TRUE}, {FALSE}, {2}, {2})

NextSync ==
    \/ \E g \in Callers, op \in {"Set", "Close"} : Call(g, op, "a", MaxSeqThreads)
    \/ \E g \in Callers : MuLock(g)
    \/ \E g \in Goroutines : WalLock(g)
    \/ \E g \in Callers, f \in {"none", "flush"} : AppendBody(g, f)
    \/ \E g \in Callers : CommitBody(g)
    \/ \E g \in Callers : CloseBody(g)
    \/ SyncFire
    \/ SyncBody
    \/ SyncReset
    \/ SyncReturn

FairSync ==
    /\ \A g \in Callers :
          /\ WF_vars(\E f \in {"none", "flush"} : AppendBody(g, f))
          /\ WF_vars(CloseBody(g))
    /\ WF_vars(SyncBody)
    /\ WF_vars(SyncReset)
    /\ SF_vars(WalLock(syncLoop))
    /\ SF_vars(SyncReturn)

SpecSync == InitSync /\ [][NextSync]_vars /\ FairSync

\* C25 (sync task termination): once WAL.Close has cancelled the context,
\* syncLoop returns in the end, wherever it was: in its select, waiting for
\* wal.lock, flushing under it, or before the Reset of its timer.
SyncLoopTerminates == ctxDone ~> At(syncLoop, "done")
\* syncLoop has returned after a Close while the channel of its timer could
\* still be received from: its select had both cases ready.
SyncLoopTerminates_Witness ==
    /\ At(syncLoop, "done") /\ proc = "closed"
    /\ syncTimer = "armed"
    /\ ret.op = "Close"

\* A goroutine ends its call of Close, or the body of its Append.
CloseReturns == \E g \in Callers : At(g, "close") /\ goroutines'[g].pc = "idle"
AppendReturns(g) == At(g, "append") /\ goroutines'[g].pc = "commit"

AppendCheck(g) ==
    /\ At(g, "append")
    /\ fileOpen /\ ~writerErr
    /\ lastSequenceNumber' = lastSequenceNumber + 1
    /\ IF FileSize(segments[currentSegment]) < maxFileSize
       THEN /\ goroutines' = Goto(g, "write")
            /\ UNCHANGED <<segments, fileOpen, durable>>
       ELSE /\ segments' = cleanupOldSegments(segments)
            /\ fileOpen' = FALSE
            /\ durable' = Len(segments[currentSegment].recs)
            /\ goroutines' = Goto(g, "create")
    /\ UNCHANGED <<cfgVars, cacheVars, currentSegment, writerErr, now, proc, ret, lru,
                   acked, mu, lock, syncTimer, applied>>

\* Lines 602-610: os.OpenFile of the next segment.  The id was computed before
\* the cleanup from the highest id, that of the segment just closed.
AppendCreate(g) ==
    /\ At(g, "create")
    /\ segments' = [id \in DOMAIN segments \cup {currentSegment + 1} |->
                       IF id \in DOMAIN segments THEN segments[id] ELSE EmptyFile]
    /\ currentSegment' = currentSegment + 1
    /\ fileOpen' = TRUE
    /\ durable' = 0
    /\ goroutines' = Goto(g, "write")
    /\ UNCHANGED <<cfgVars, cacheVars, lastSequenceNumber, writerErr, now, proc, ret, lru,
                   acked, mu, lock, syncTimer, applied>>

\* Lines 529-538: the size and the data go to the buffered writer, which
\* writes what exceeds its buffer to the file at once.
AppendWrite(g) ==
    /\ At(g, "write")
    /\ segments' = [segments EXCEPT ![currentSegment].tail = "body"]
    /\ goroutines' = Goto(g, "flush")
    /\ UNCHANGED <<cfgVars, cacheVars, lastSequenceNumber, currentSegment, fileOpen,
                   writerErr, durable, now, proc, ret, lru, acked, mu, lock, syncTimer,
                   applied>>

\* Lines 540-554: Flush writes the rest of the record, Sync if configured, and
\* the deferred Unlock.
AppendFlush(g) ==
    /\ At(g, "flush")
    /\ LET data == Marshal(Entry(EntryTypeSET, lastSequenceNumber, goroutines[g].key,
                                 serializeValue(1), 0))
           recs == Append(segments[currentSegment].recs, data)
       IN /\ segments' = [segments EXCEPT ![currentSegment] = File(recs, "none")]
          /\ durable' = IF forceFSync THEN Len(recs) ELSE durable
    /\ lock' = Unlock(g)
    /\ goroutines' = [goroutines EXCEPT ![g].pc = "commit", ![g].err = FALSE]
    /\ UNCHANGED <<cfgVars, cacheVars, lastSequenceNumber, currentSegment, fileOpen,
                   writerErr, now, proc, ret, lru, acked, mu, syncTimer, applied>>

\* WAL.ReadAll, lines 697-720, called by a goroutine of its own: Glob, sort
\* and the read of every segment, with no use of wal.lock.
ReadAllCall ==
    /\ proc = "open" /\ walOn
    /\ LET r == ReadAll(segments)
       IN ret' = [Ret("ReadAll", "", r.err, FALSE) EXCEPT !.value = Len(r.w)]
    /\ UNCHANGED <<cfgVars, cacheVars, walVars, now, proc, lru, acked, thrVars>>

\* Two goroutines that set one key, every Append rotating, and a goroutine
\* that calls ReadAll.
InitReadAll == InitWith({1}, {TRUE}, BOOLEAN, {1}, SegmentLimits)

NextReadAll ==
    \/ \E g \in Callers, k \in Keys : Call(g, "Set", k, MaxSeqReadAll)
    \/ \E g \in Callers : MuLock(g)
    \/ \E g \in Callers : WalLock(g)
    \/ \E g \in Callers : AppendCheck(g)
    \/ \E g \in Callers : AppendCreate(g)
    \/ \E g \in Callers : AppendWrite(g)
    \/ \E g \in Callers : AppendFlush(g)
    \/ \E g \in Callers : CommitBody(g)
    \/ ReadAllCall

SpecReadAll == InitReadAll /\ [][NextReadAll]_vars

\* C27 (Append is atomic with respect to ReadAll): a ReadAll that runs while
\* other goroutines append finds no partial record and no directory between
\* the removal of old segments and the creation of the next one, and returns
\* no error.
ReadAllSerialized ==
    [][(ret'.op = "ReadAll" /\ goroutines' = goroutines)
         => /\ \A id \in DOMAIN segments : segments[id].tail = "none"
            /\ fileOpen /\ currentSegment \in DOMAIN segments
            /\ ~ret'.err]_vars

\* C28 (single active segment): while a WAL is open, after NewWal on whatever
\* the earlier runs, crashes and rotations left in the directory and after
\* every rotation, the segment written to is in the directory and has the
\* highest id; and a step that adds a record or a fragment to a segment adds
\* it to the segment of the highest id.
SingleActiveSegment ==
    [][/\ (proc' = "open" /\ walOn /\ fileOpen')
            => /\ currentSegment' \in DOMAIN segments'
               /\ \A id \in DOMAIN segments' : id <= currentSegment'
       /\ \A id \in DOMAIN segments \cap DOMAIN segments' :
             (proc = "open" /\ proc' = "open" /\ segments'[id] # segments[id])
                => \A other \in DOMAIN segments' : other <= id]_vars
\* NewWal has opened a directory of two segments, the lower one with a record,
\* and writes to the higher one.
SingleActiveSegment_Witness ==
    /\ Opened /\ walOn /\ fileOpen
    /\ Cardinality(DOMAIN segments) = 2
    /\ currentSegment = Max(DOMAIN segments)
    /\ \E id \in DOMAIN segments : id < currentSegment /\ Len(segments[id].recs) > 0

\* A step in which a Set or a Delete called Append.
AppendStep ==
    /\ walOn /\ ret'.op \in {"Set", "Delete"}
    /\ proc' = proc
    /\ lastSequenceNumber' = lastSequenceNumber + 1

\* C29 (rotation trigger): an Append that returns nil has rotated exactly if
\* the segment it found held max_file_size or more; if it rotated, its record
\* is the one record of the new segment and the old segment, where it is
\* kept, is as it was; if not, its record is added to the current segment.
\* An Append that returns an error has rotated only if the segment was full.
RotationTrigger ==
    [][AppendStep =>
         LET old == segments[currentSegment]
             new == segments'[currentSegment']
             full == Len(old.recs) >= maxFileSize
         IN IF ret'.err
            THEN currentSegment' # currentSegment => full
            ELSE /\ new.recs # <<>>
                 /\ new.recs[Len(new.recs)].SequenceNumber = lastSequenceNumber'
                 /\ new.recs[Len(new.recs)].Key = ret'.key
                 /\ IF full
                    THEN /\ currentSegment' # currentSegment
                         /\ Len(new.recs) = 1
                         /\ currentSegment \in DOMAIN segments'
                               => segments'[currentSegment] = old
                    ELSE /\ currentSegment' = currentSegment
                         /\ SubSeq(new.recs, 1, Len(new.recs) - 1) = old.recs]_vars
\* With segments of two records, the third Append of a process has rotated:
\* its record is alone in segment 1.
RotationTrigger_Witness ==
    /\ proc = "open" /\ walOn /\ maxFileSize = 2
    /\ ret.op \in {"Set", "Delete"} /\ ~ret.err
    /\ currentSegment = 1 /\ lastSequenceNumber = 3
    /\ Len(segments[1].recs) = 1
    /\ segments[1].recs[1].SequenceNumber = 3

\* One process whose every Append after the first rotates, keeping zero to
\* three segments, in a directory that holds up to MaxOtherFiles files with the
\* segment prefix and a suffix that is no integer.
MaxOtherFiles == 2
MaxSeqRetention == 5
InitRetention == InitDir({1}, {TRUE}, {TRUE}, {1}, SegmentLimitsRotate, 0..MaxOtherFiles)

NextRetention ==
    \/ \E k \in Keys : Set(k, 1, 0, "none", MaxSeqRetention)
    \/ \E k \in Keys : Get(k)
    \/ \E k \in Keys : Delete(k, "none", MaxSeqRetention)
    \/ Close
    \/ SyncTick

SpecRetention == InitRetention /\ [][NextRetention]_vars

\* What a rotation step removed: with L segments before it, none if L is
\* below the bound, else the L - max_segments + 1 segments of the lowest ids;
\* and no file that is not a segment.
RetentionAsStated ==
    LET before == DOMAIN segments
        kept == DOMAIN segments' \ {currentSegment'}
        gone == before \ kept
    IN /\ kept \subseteq before
       /\ IF Cardinality(before) < maxSegments THEN gone = {}
          ELSE /\ Cardinality(gone) = Cardinality(before) - maxSegments + 1
               /\ \A g \in gone, k \in kept : g < k
       /\ otherFiles' = otherFiles

\* C30 (retention count) as stated: for every bound.
RetentionCount == [][Rotated => RetentionAsStated]_vars

\* C30 amended: for every bound of at least 1 (with the bound 0 there are L
\* segments to delete, not L + 1, and all of them are deleted).
RetentionCount_Positive ==
    [][Rotated => IF maxSegments >= 1 THEN RetentionAsStated
                  ELSE DOMAIN segments' = {currentSegment'} /\ otherFiles' = otherFiles]_vars

\* Next to a file that is no segment, with a bound of two, the rotations that
\* created segments 2 and 3 have each removed the segment of the lowest id.
RetentionCount_Witness ==
    /\ proc = "open" /\ maxSegments = 2 /\ otherFiles = 1
    /\ currentSegment = 3
    /\ DOMAIN segments = {2, 3}

\* ------------------------------------------------- expiry across recovery
\* Entries set with a lifetime of up to MaxTTL instants by a Set whose Append
\* takes no time or one instant, restarts at every instant of the clock: no
\* I/O failure, no rotation.
MaxTTL == 2
MaxSeqExpiry == 2
Lifetimes == 0..MaxTTL
InitExpiry == InitWith({1, 2}, {TRUE}, {TRUE}, {MaxSeqExpiry + 1}, {2})

NextExpiry ==
    \/ \E k \in Keys, ttl \in Lifetimes, lag \in {0, 1} :
          SetTakes(k, 1, ttl, "none", MaxSeqExpiry, lag)
    \/ \E k \in Keys : Get(k)
    \/ \E k \in Keys : Delete(k, "none", MaxSeqExpiry)
    \/ Close
    \/ Open
    \/ Tick

SpecExpiry == InitExpiry /\ [][NextExpiry]_vars

\* A step that is a successful NewLRUCache over a WAL directory.
OpenStep == proc # "open" /\ proc' = "open" /\ walOn
\* The replay at time t skips the SET record e.
Skipped(e, t) == e.ExpiresAtUnixNano > 0 /\ t >= e.ExpiresAtUnixNano
\* The position of the last SET record of key k that a replay at time t does
\* not skip, 0 if there is none.
LastReplayedSetOf(recs, k, t) ==
    LET at == {i \in DOMAIN recs : recs[i].Key = k /\ IsSet(recs[i]) /\ ~Skipped(recs[i], t)}
    IN IF at = {} THEN 0 ELSE Max(at)
\* The instants a Get may be called at.
Instants == 0..(MaxTime + MaxTTL + 1)

\* C31 (recovery preserves absolute expiry): every entry recovery leaves in
\* the map comes from the last replayed SET record of its key; if the record
\* has an expiry instant, the entry's createdAt + TTL is that instant and a
\* Get finds it expired at exactly the instants after it; if the record has
\* none, the entry never expires.
RecoveryPreservesExpiry ==
    [][OpenStep =>
          LET recs == ReadAll(segments').w
          IN \A k \in DOMAIN entries' :
                LET i == LastReplayedSetOf(recs, k, now)
                    item == entries'[k]
                IN /\ i > 0
                   /\ IF recs[i].ExpiresAtUnixNano > 0
                      THEN /\ item.createdAt + item.TTL = recs[i].ExpiresAtUnixNano
                           /\ \A t \in Instants :
                                 Expired(item, t) <=> t > recs[i].ExpiresAtUnixNano
                      ELSE \A t \in Instants : ~Expired(item, t)]_vars

\* C31 witness: recovery at instant 1 replayed a SET written at instant 0 with
\* a lifetime of 2: the entry has one instant left.
RecoveryPreservesExpiry_Witness ==
    /\ Opened /\ walOn /\ now = 1
    /\ \E k \in DOMAIN entries :
          /\ entries[k].createdAt = 1 /\ entries[k].TTL = 1
          /\ LastSetOf(Logged, k) > 0
          /\ Logged[LastSetOf(Logged, k)].ExpiresAtUnixNano = 2
          /\ \E j \in DOMAIN Logged : Logged[j].Key # k /\ Logged[j].ExpiresAtUnixNano = 0
                                       /\ Logged[j].Key \in DOMAIN entries

\* C31, second half (same instant): after Close and Open, an entry replayed
\* from the record its key's entry was written with is found expired by Get
\* at the same instants as the entry it replaces.
RecoveryPreservesExpiryInstant ==
    [][(OpenStep /\ proc = "closed") =>
          LET recs == ReadAll(segments').w
          IN \A k \in DOMAIN entries \cap DOMAIN entries' :
                (LastReplayedSetOf(recs, k, now) = LastSetOf(recs, k)) =>
                    \A t \in Instants :
                        t >= now => (Expired(entries'[k], t) <=> Expired(entries[k], t))]_vars

\* ------------------------------------------------ recovery and the log
\* A step that is a call of NewLRUCache over a WAL directory, failed or not.
OpenCall == Open /\ walOn
\* The sequence number of the last record of segment id, 0 if it holds none.
LastRecordSeq(segs, id) ==
    IF Len(segs[id].recs) = 0 THEN 0 ELSE segs[id].recs[Len(segs[id].recs)].SequenceNumber

\* C32 (recovery is read-only on the log): NewLRUCache with recovery leaves
\* every segment file as it found it, none added, removed or changed, and a
\* successful one leaves lastSequenceNumber at the sequence number of the last
\* record of the segment of the highest id (0 if that segment is empty).
RecoveryReadOnly ==
    [][OpenCall =>
          /\ segments' = segments
          /\ OpenStep =>
                /\ currentSegment' = GetLastSegmentID(segments)
                /\ lastSequenceNumber' = LastRecordSeq(segments, GetLastSegmentID(segments))]_vars

\* C32 witness: a recovery over two segments, the last record of the higher
\* one numbered 2 or more, has replayed a key into the cache.
RecoveryReadOnly_Witness ==
    /\ Opened /\ walOn
    /\ Cardinality(DOMAIN segments) = 2
    /\ Len(segments[currentSegment].recs) > 0
    /\ lastSequenceNumber >= 2
    /\ DOMAIN entries # {}

\* ------------------------------------------------- replay and live logic
\* The records of a log applied in order through the bodies of Set and Delete
\* of the running cache, the SET records a replay at time t skips left out and
\* each entry stamped as the replay stamps it.
RECURSIVE LiveApply(_, _, _)
LiveApply(c, recs, t) ==
    IF recs = <<>> THEN c
    ELSE LET e == Head(recs)
             exp == e.ExpiresAtUnixNano
             c1 == IF IsDelete(e)
                   THEN (IF e.Key \in DOMAIN c.entries THEN RemoveItem(c, e.Key) ELSE c)
                   ELSE IF ~IsSet(e) \/ Skipped(e, t) THEN c
                   ELSE SetItem(c, e.Key, deserializeValue(e.Value),
                                IF exp > 0 THEN exp - t ELSE 0, IF exp > 0 THEN t ELSE 0)
         IN LiveApply(c1, Tail(recs), t)

\* C33 (replay equals live application): after recovery the entry map and the
\* recency order are the ones the same records give when applied in order
\* through the logic of Set and Delete, and the key of the last record
\* that left an entry is the most recently used.
ReplayEqualsLive ==
    [][OpenStep =>
          LET live == LiveApply(EmptyCache, ReadAll(segments').w, now)
          IN /\ entries' = live.entries
             /\ KeySeq(evictList') = KeySeq(live.evictList)]_vars

\* ------------------------------------------- expiry and eviction in Set
\* The key of the node evictLRU would remove.
Back(l) == l[Len(l)].key
\* A call of Set for key k that removes entry x because it is expired and
\* evicts the least recently used entry as well.
SetRemovesExpiredAndEvicts(k, x) ==
    /\ \E ttl \in TTLs : Set(k, 1, ttl, "none", MaxSeqLive)
    /\ x \notin DOMAIN entries'
    /\ Back(evictList) \notin DOMAIN entries'

\* C34 (expiry removal and eviction in one Set): when a full cache holds an
\* expired entry that is not the least recently used one, a Set of a new key
\* can remove the expired entry and evict the least recently used one in the
\* same call.
SetMayExpireAndEvict ==
    \A k \in KeysReplay, x \in DOMAIN entries :
        (/\ proc = "open" /\ ~walOn
         /\ Size(Cache(entries, evictList)) >= capacity
         /\ k \notin DOMAIN entries
         /\ Expired(entries[x], now)
         /\ x # Back(evictList))
            => ENABLED SetRemovesExpiredAndEvicts(k, x)

\* No call of Set removes an entry for being expired: it removes at most one
\* entry, the least recently used one of a full map, and that only for a key
\* that is not in the map.
SetEvictsOnly ==
    [][(ret'.op = "Set" /\ entries' # entries) =>
          LET gone == DOMAIN entries \ DOMAIN entries'
          IN \/ gone = {}
             \/ /\ gone = {Back(evictList)}
                /\ ret'.key \notin DOMAIN entries
                /\ Size(Cache(entries, evictList)) >= capacity]_vars

\* --------------------------------------------- residents across a restart
\* No key has two SET records in the log.
SetOnce(recs) ==
    \A i, j \in DOMAIN recs : (IsSet(recs[i]) /\ IsSet(recs[j]) /\ recs[i].Key = recs[j].Key) => i = j

\* C35 (restart preserves the resident set): with no ttl and no segment
\* deleted, the keys resident after Close and NewLRUCache are the keys that
\* were resident before Close.
RestartPreservesResidents ==
    [][(proc = "closed" /\ OpenStep) => DOMAIN entries' = DOMAIN entries]_vars

\* The same for the logs in which no key is SET twice: what is left to differ
\* is the recency order the Gets gave the running cache.
RestartPreservesResidents_SetOnce ==
    [][(proc = "closed" /\ OpenStep /\ SetOnce(ReadAll(segments').w))
          => DOMAIN entries' = DOMAIN entries]_vars

\* ----------------------------------------------------- sync after Close
\* A step in which syncLoop calls Flush and Sync (lines 644-656).
SyncBodyStep == At(syncLoop, "sync") /\ goroutines'[syncLoop].pc = "reset"

\* C36 (no sync after Close): once Close has returned, syncLoop calls neither
\* Flush nor Sync on the closed segment and does not arm the timer again.
NoSyncAfterClose ==
    [][proc = "closed" =>
          /\ ~SyncBodyStep
          /\ (syncTimer # "armed" => syncTimer' # "armed")]_vars

\* The first half alone: no call of Flush or Sync after Close has returned.
NoFlushAfterClose == [][proc = "closed" => ~SyncBodyStep]_vars

\* The second half alone: the timer is not armed again after Close has returned.
NoResetAfterClose ==
    [][proc = "closed" => (syncTimer # "armed" => syncTimer' # "armed")]_vars

====
